---- MODULE Spec2Model ----
(***************************************************************************)
(* Model of "Python For FastApi/main.py": the bootstrap of a FastAPI       *)
(* application.  The module builds the application object (line 5),        *)
(* includes the example router under the prefix /api/v1/example (line 8),  *)
(* registers read_root for GET / (lines 10-12) and, when run as the main   *)
(* module, calls uvicorn.run(app, host="0.0.0.0", port=8000, reload=True)  *)
(* (lines 14-15).                                                          *)
(*                                                                         *)
(* A path is a sequence of one-character strings, so that prefixes and     *)
(* route matching are computed and not assumed.  The token Param stands    *)
(* for a path parameter "{p}" of a route path.                             *)
(***************************************************************************)
EXTENDS Integers, Sequences, FiniteSets, TLC

VARIABLES
    exampleRoutes,  \* example.router.routes, fixed when line 2 imports it
    strictReload,   \* the installed uvicorn refuses reload with an app object
    runMode,        \* per process: __name__ is "__main__" ("main") or not ("imported")
    pc,             \* per process: the next line of main.py to execute
    routes,         \* per process: app.router.routes, in registration order
    phase,          \* per process: "not_running", "listening", "terminated"
    failure,        \* per process: the startup failure that ended it, or "none"
    listener,       \* per process: the configuration of its listener, or NoListener
    exitCause,      \* per process: what left the module's top level, or "none"
    signalled,      \* per process: a termination signal was delivered to it
    portAtRun,      \* per process: the holder of the port when line 15 was reached
    priorStarts,    \* per process: the starts already made, and not stopped, at line 15
    portOwner,      \* who holds TCP port 8000: "free" or a process
    lastResp,       \* the response to the last request served, or NoResp
    firstRoot       \* the first response to GET /, or NoFirst

vars == <<exampleRoutes, strictReload, runMode, pc, routes, phase, failure,
          listener, exitCause, signalled, portAtRun, priorStarts, portOwner,
          lastResp, firstRoot>>

\* The two starts of the program.
Procs == {"p1", "p2"}

\* The most routes an example router has.
MaxRouterRoutes == 1

-----------------------------------------------------------------------------
(* Paths *)

Param == "{p}"

\* "/api/v1/example" (line 8).
ExamplePrefix ==
    <<"/", "a", "p", "i", "/", "v", "1", "/", "e", "x", "a", "m", "p", "l", "e">>

\* "/" (line 10).
RootPath == <<"/">>

\* host and port of line 15.
Host == "0.0.0.0"
Port == 8000

\* starlette compile_path + regex fullmatch, from position i of the pattern
\* and position j of the path: a literal character matches itself, a path
\* parameter matches one or more characters other than "/".
RECURSIVE MatchesFrom(_, _, _, _)
MatchesFrom(pat, i, s, j) ==
    IF i > Len(pat) THEN j > Len(s)
    ELSE IF pat[i] = Param
         THEN \E k \in j..Len(s) :
                  /\ \A m \in j..k : s[m] # "/"
                  /\ MatchesFrom(pat, i + 1, s, k + 1)
         ELSE /\ j <= Len(s)
              /\ s[j] = pat[i]
              /\ MatchesFrom(pat, i + 1, s, j + 1)

\* The whole path against the compiled pattern of a route: a pattern
\* without parameters matches the path equal to it.
PathMatches(r, s) ==
    IF r.literal THEN r.path = s ELSE MatchesFrom(r.path, 1, s, 1)

-----------------------------------------------------------------------------
(* Routes and their registration *)

\* A route: its path pattern, its methods, the handler it calls, the object
\* that declared it ("fastapi", "example" or "app") and its tags.  The path
\* is compiled when the route is made: literal tells that it has no
\* parameter.
Route(path, methods, endpoint, owner, tags) ==
    [path |-> path, literal |-> \A i \in 1..Len(path) : path[i] # Param,
     methods |-> methods, endpoint |-> endpoint, owner |-> owner, tags |-> tags]

\* starlette Route: a function endpoint without methods gets GET, and HEAD is
\* added to every route that has GET.
StarletteRoute(path, endpoint, owner) ==
    Route(path, {"GET", "HEAD"}, endpoint, owner, {})

\* FastAPI() (line 5): setup() registers the documentation routes.
FastAPI ==
    << StarletteRoute(<<"/", "o", "p", "e", "n", "a", "p", "i", ".", "j", "s", "o", "n">>,
                      "openapi", "fastapi"),
       StarletteRoute(<<"/", "d", "o", "c", "s">>, "swagger_ui_html", "fastapi"),
       StarletteRoute(<<"/", "d", "o", "c", "s", "/", "o", "a", "u", "t", "h", "2",
                        "-", "r", "e", "d", "i", "r", "e", "c", "t">>,
                      "swagger_ui_redirect", "fastapi"),
       StarletteRoute(<<"/", "r", "e", "d", "o", "c">>, "redoc_html", "fastapi") >>

\* The route include_router adds for one route of the router: the prefix and
\* the route's path are concatenated as text, the tags are prepended.
Prefixed(r, prefix, tags) ==
    Route(prefix \o r.path, r.methods, r.endpoint, r.owner, tags \cup r.tags)

\* app.include_router(router, prefix=..., tags=...): every route of the router
\* is appended to the application's routes, in the router's order.
include_router(rs, router, prefix, tags) ==
    rs \o [i \in 1..Len(router) |-> Prefixed(router[i], prefix, tags)]

\* A get that registers the way starlette's Route does, HEAD added to GET.
get_with_head(rs, path, endpoint) ==
    Append(rs, Route(path, {"GET", "HEAD"}, endpoint, "app", {}))

\* @app.get(path): an APIRoute for GET alone (APIRoute adds no HEAD).
get(rs, path, endpoint) ==
    Append(rs, Route(path, {"GET"}, endpoint, "app", {}))

\* Line 8 without its prefix.
IncludeExampleNoPrefix(rs, router) ==
    include_router(rs, router, <<>>, {"example"})

\* Line 8 with the last letter of its prefix lost.
IncludeExampleTypo(rs, router) ==
    include_router(rs, router, SubSeq(ExamplePrefix, 1, Len(ExamplePrefix) - 1),
                   {"example"})

\* Line 8.
IncludeExample(rs, router) ==
    include_router(rs, router, ExamplePrefix, {"example"})

\* Lines 10-11.
RegisterRoot(rs) == get(rs, RootPath, "read_root")

\* The routes the example module may declare on its router.  A path is
\* empty, begins with "/" (the convention) or is any other text: APIRouter
\* does not check it.
ExampleRoutePool ==
    << Route(<<>>, {"GET"}, "example_index", "example", {}),
       Route(<<"/">>, {"GET"}, "example_list", "example", {}),
       Route(<<"/", Param>>, {"POST"}, "example_item", "example", {}),
       Route(<<"2">>, {"GET"}, "example_two", "example", {}) >>

\* The routes of the pool at the indices of I, in the pool's order.
RECURSIVE Pick(_, _)
Pick(I, i) ==
    IF i > Len(ExampleRoutePool) THEN <<>>
    ELSE (IF i \in I THEN <<ExampleRoutePool[i]>> ELSE <<>>) \o Pick(I, i + 1)

\* The example routers: at most MaxRouterRoutes routes of the pool.
ExampleRouters ==
    { Pick(I, 1) : I \in {J \in SUBSET (1..Len(ExampleRoutePool)) :
                             Cardinality(J) <= MaxRouterRoutes} }

-----------------------------------------------------------------------------
(* Requests and dispatch *)

Methods == {"GET", "POST", "HEAD"}

\* What a request carries besides its method and path: a query string and
\* headers.
Extras ==
    { [query |-> "", headers |-> {}],
      [query |-> "q=1", headers |-> {<<"accept", "text/html">>}] }

ReqPaths ==
    { RootPath,
      ExamplePrefix,
      ExamplePrefix \o <<"/">>,
      SubSeq(ExamplePrefix, 1, Len(ExamplePrefix) - 1),
      ExamplePrefix \o <<"2">>,
      ExamplePrefix \o <<"/", "7">>,
      <<"/", "d", "o", "c", "s">> }

Requests ==
    { [method |-> m, path |-> q, query |-> x.query, headers |-> x.headers] :
      m \in Methods, q \in ReqPaths, x \in Extras }

NoFirst == [status |-> 0, body |-> {}]

\* A read_root that keeps a module-level flag: the greeting changes once it
\* has answered.
read_root_once ==
    IF firstRoot = NoFirst THEN {<<"Hello", "World">>} ELSE {<<"Hello", "again">>}

\* read_root (lines 11-12): the mapping {"Hello": "World"}, as its items.
read_root == {<<"Hello", "World">>}

\* What the handler named e returns.  The example handlers and the
\* documentation pages are not part of main.py: their body is a tag.
Call(e) ==
    IF e = "read_root" THEN read_root ELSE {<<"handled_by", e>>}

\* A matching that looks at the request target, query string included.
RouteMatchTarget(r, req) ==
    IF ~PathMatches(r, req.path) \/ req.query # "" THEN "NONE"
    ELSE IF req.method \in r.methods THEN "FULL"
    ELSE "PARTIAL"

\* starlette Route.matches: the path alone decides between NONE and a match;
\* the query string and the headers are not looked at.
RouteMatch(r, req) ==
    IF ~PathMatches(r, req.path) THEN "NONE"
    ELSE IF req.method \in r.methods THEN "FULL"
    ELSE "PARTIAL"

\* The path with its trailing slash toggled (redirect_slashes).
ToggleSlash(path) ==
    IF path[Len(path)] = "/" THEN SubSeq(path, 1, Len(path) - 1)
    ELSE path \o <<"/">>

NoRoute == Route(<<>>, {}, "none", "none", {})

\* A response, with the method and path it answers, the owner of the route
\* that was selected for it and the handler that was called to make it
\* ("none" when no handler ran).
Response(status, body, r, called, req) ==
    [status |-> status, body |-> body, owner |-> r.owner, endpoint |-> called,
     method |-> req.method, path |-> req.path]

\* One step of the loop of starlette Router.app, at route i whose match is
\* m: a full match ends the loop, the first partial match is remembered.
RECURSIVE FirstMatch(_, _, _, _)
LoopStep(rs, i, req, partial, m) ==
    IF m = "FULL" THEN i
    ELSE FirstMatch(rs, i + 1, req,
                    IF m = "PARTIAL" /\ partial = 0 THEN i ELSE partial)

\* The loop over routes i..Len(rs): the index of the first route that
\* matches fully; failing that the index of the first route that matches the
\* path alone, negated; failing that 0.
FirstMatch(rs, i, req, partial) ==
    IF i > Len(rs) THEN 0 - partial
    ELSE LoopStep(rs, i, req, partial, RouteMatch(rs[i], req))

\* The answer of starlette Router.app once the loop has ended with k: the
\* route that matches fully handles the request; failing that the first
\* route that matches the path alone answers 405; failing that a route
\* matching the path with its trailing slash toggled makes the answer a
\* redirect; failing that 404.
Answer(rs, req, k) ==
    IF k > 0 THEN Response(200, Call(rs[k].endpoint), rs[k], rs[k].endpoint, req)
    ELSE IF k < 0
    THEN Response(405, {<<"detail", "Method Not Allowed">>}, rs[0 - k], "none", req)
    ELSE IF /\ req.path # <<"/">>
            /\ FirstMatch(rs, 1, [req EXCEPT !.path = ToggleSlash(req.path)], 0) # 0
    THEN Response(307, {}, NoRoute, "none", req)
    ELSE Response(404, {<<"detail", "Not Found">>}, NoRoute, "none", req)

Dispatch(rs, req) == Answer(rs, req, FirstMatch(rs, 1, req, 0))

NoResp == Response(0, {}, NoRoute, "none", [method |-> "", path |-> <<>>])

-----------------------------------------------------------------------------
(* The server *)

NoListener == [host |-> "", port |-> 0, reload |-> FALSE]

\* uvicorn.run(app, host, port, reload) seen from its caller.  appArg is
\* "object" when the application object is passed and "import_string" when
\* its import string is.  Reload needs an import string: given an object, a
\* uvicorn that is strict about it logs a warning and exits with status 1
\* before binding, an older one logs the warning and serves without reload.
\* Binding a port that is held logs the OSError and exits with status 1.
\* Otherwise the call binds the port and blocks, listening.
uvicorn_run(appArg, host, port, reload, strict, owner) ==
    IF reload /\ appArg = "object" /\ strict
    THEN [phase |-> "terminated", failure |-> "reload_needs_import_string",
          listener |-> NoListener]
    ELSE IF owner # "free"
    THEN [phase |-> "terminated", failure |-> "bind_error",
          listener |-> NoListener]
    ELSE [phase |-> "listening", failure |-> "none",
          listener |-> [host |-> host, port |-> port,
                        reload |-> reload /\ appArg = "import_string"]]

\* Line 15 inside a try: when the call fails, the failure is caught and the
\* server is started again without reload.
RunServerFallback(strict, owner) ==
    LET first == uvicorn_run("object", Host, Port, TRUE, strict, owner)
        again == uvicorn_run("object", Host, Port, FALSE, strict, owner)
    IN  IF first.failure = "none" THEN first
        ELSE [again EXCEPT !.failure = first.failure]

\* Line 15: the call main.py makes.  Nothing surrounds it: its outcome is
\* the outcome of the module.
RunServer(strict, owner) ==
    uvicorn_run("object", Host, Port, TRUE, strict, owner)

\* Line 14 without its test.
AlwaysMain(mode) == TRUE

\* Line 14: __name__ == "__main__".
IsMain(mode) == mode = "main"

\* The routes of the application once lines 5-12 have run.
BuiltRoutes(router) == RegisterRoot(IncludeExample(FastAPI, router))

-----------------------------------------------------------------------------
(* The state machine *)

\* No line of the module has run.  The two starts are interchangeable: when
\* only one of them runs the module as the main module, it is p1.
Init ==
    /\ exampleRoutes \in ExampleRouters
    /\ strictReload \in BOOLEAN
    /\ runMode \in [Procs -> {"main", "imported"}]
    /\ runMode["p1"] = "imported" => runMode["p2"] = "imported"
    /\ pc = [p \in Procs |-> "line5"]
    /\ routes = [p \in Procs |-> <<>>]
    /\ phase = [p \in Procs |-> "not_running"]
    /\ failure = [p \in Procs |-> "none"]
    /\ listener = [p \in Procs |-> NoListener]
    /\ exitCause = [p \in Procs |-> "none"]
    /\ signalled = [p \in Procs |-> FALSE]
    /\ portAtRun = [p \in Procs |-> "not_run"]
    /\ priorStarts = [p \in Procs |-> {}]
    /\ portOwner = "free"
    /\ lastResp = NoResp
    /\ firstRoot = NoFirst

\* Line 5: app = FastAPI().
BuildApp(p) ==
    /\ pc[p] = "line5"
    /\ routes' = [routes EXCEPT ![p] = FastAPI]
    /\ pc' = [pc EXCEPT ![p] = "line8"]
    /\ UNCHANGED <<exampleRoutes, strictReload, runMode, phase, failure, listener,
                   exitCause, signalled, portAtRun, priorStarts, portOwner,
                   lastResp, firstRoot>>

\* Line 8: app.include_router(example.router, prefix=..., tags=["example"]).
IncludeRouter(p) ==
    /\ pc[p] = "line8"
    /\ routes' = [routes EXCEPT ![p] = IncludeExample(routes[p], exampleRoutes)]
    /\ pc' = [pc EXCEPT ![p] = "line10"]
    /\ UNCHANGED <<exampleRoutes, strictReload, runMode, phase, failure, listener,
                   exitCause, signalled, portAtRun, priorStarts, portOwner,
                   lastResp, firstRoot>>

\* Lines 10-12: @app.get("/") def read_root.
DefineRoot(p) ==
    /\ pc[p] = "line10"
    /\ routes' = [routes EXCEPT ![p] = RegisterRoot(routes[p])]
    /\ pc' = [pc EXCEPT ![p] = "line14"]
    /\ UNCHANGED <<exampleRoutes, strictReload, runMode, phase, failure, listener,
                   exitCause, signalled, portAtRun, priorStarts, portOwner,
                   lastResp, firstRoot>>

\* The starts of the program that reached line 15 with the port free before
\* p did and that no signal has stopped.
StartedBefore(p) ==
    {q \in Procs \ {p} : portAtRun[q] = "free" /\ ~signalled[q]}

\* Line 15: uvicorn.run is called.  A startup failure leaves the module as
\* it was raised and ends the process; otherwise the call blocks, listening.
StartServer(p) ==
    LET out == RunServer(strictReload, portOwner)
    IN  /\ portAtRun' = [portAtRun EXCEPT ![p] = portOwner]
        /\ priorStarts' = [priorStarts EXCEPT ![p] = StartedBefore(p)]
        /\ phase' = [phase EXCEPT ![p] = out.phase]
        /\ failure' = [failure EXCEPT ![p] = out.failure]
        /\ exitCause' = [exitCause EXCEPT ![p] =
                            IF out.phase = "listening" THEN "none" ELSE out.failure]
        /\ listener' = [listener EXCEPT ![p] = out.listener]
        /\ portOwner' = IF out.phase = "listening" THEN p ELSE portOwner
        /\ pc' = [pc EXCEPT ![p] = IF out.phase = "listening" THEN "line15" ELSE "exit"]
        /\ UNCHANGED <<exampleRoutes, strictReload, runMode, routes, signalled,
                       lastResp, firstRoot>>

\* Lines 14-15 inside a loop: the server is started again after it ended.
RunAsMainLoop(p) ==
    /\ pc[p] \in {"line14", "exit"}
    /\ IsMain(runMode[p])
    /\ StartServer(p)

\* Lines 14-15, run as the main module.
RunAsMain(p) ==
    /\ pc[p] = "line14"
    /\ IsMain(runMode[p])
    /\ StartServer(p)

\* Line 14, imported by another module: the body of the if is skipped and
\* the importer goes on with the application object.
ImportDone(p) ==
    /\ pc[p] = "line14"
    /\ ~IsMain(runMode[p])
    /\ pc' = [pc EXCEPT ![p] = "loaded"]
    /\ UNCHANGED <<exampleRoutes, strictReload, runMode, routes, phase, failure,
                   listener, exitCause, signalled, portAtRun, priorStarts,
                   portOwner, lastResp, firstRoot>>

\* The application of p receives requests: through its own listener, or
\* through the importer that serves it.
Serving(p) ==
    \/ pc[p] = "line15" /\ phase[p] = "listening"
    \/ pc[p] = "loaded"

IsRootGet(r) == r.method = "GET" /\ r.path = RootPath

\* One request is dispatched over the application's routes and answered.
\* The handlers of main.py assign nothing: the routes stay as they are.
Serve(p, req) ==
    LET resp == Dispatch(routes[p], req)
    IN  /\ Serving(p)
        /\ lastResp' = resp
        /\ firstRoot' = IF IsRootGet(req) /\ firstRoot = NoFirst
                        THEN [status |-> resp.status, body |-> resp.body]
                        ELSE firstRoot
        /\ UNCHANGED <<exampleRoutes, strictReload, runMode, pc, routes, phase,
                       failure, listener, exitCause, signalled, portAtRun,
                       priorStarts, portOwner>>

\* An external signal (SIGINT, SIGTERM) ends the server loop: uvicorn.run
\* returns, the port is released and the process ends.
Signal(p) ==
    /\ phase[p] = "listening"
    /\ signalled' = [signalled EXCEPT ![p] = TRUE]
    /\ phase' = [phase EXCEPT ![p] = "terminated"]
    /\ listener' = [listener EXCEPT ![p] = NoListener]
    /\ portOwner' = "free"
    /\ pc' = [pc EXCEPT ![p] = "exit"]
    /\ UNCHANGED <<exampleRoutes, strictReload, runMode, routes, failure,
                   exitCause, portAtRun, priorStarts, lastResp, firstRoot>>

Next ==
    \/ \E p \in Procs : BuildApp(p)
    \/ \E p \in Procs : IncludeRouter(p)
    \/ \E p \in Procs : DefineRoot(p)
    \/ \E p \in Procs : RunAsMain(p)
    \/ \E p \in Procs : ImportDone(p)
    \/ \E p \in Procs, req \in Requests : Serve(p, req)
    \/ \E p \in Procs : Signal(p)

Spec == Init /\ [][Next]_vars

-----------------------------------------------------------------------------
(* Properties *)

Hello == {<<"Hello", "World">>}

IsPrefixOf(a, b) == Len(a) <= Len(b) /\ SubSeq(b, 1, Len(a)) = a

\* The path is /api/v1/example or begins with /api/v1/example/.
UnderPrefix(path) ==
    \/ path = ExamplePrefix
    \/ IsPrefixOf(ExamplePrefix \o <<"/">>, path)

\* Every route of the example router has a path that is empty or begins
\* with "/".
Conventional(router) ==
    \A i \in 1..Len(router) :
        router[i].path = <<>> \/ Head(router[i].path) = "/"

Loaded(p) == pc[p] \in {"line14", "line15", "loaded", "exit"}

\* C1: every response to a GET request for the path / has status 200 and
\* the body {"Hello": "World"}, whatever query string and headers the
\* request carried.
C1_RootGetReturnsHello ==
    IsRootGet(lastResp) => lastResp.status = 200 /\ lastResp.body = Hello

C1_Witness ==
    /\ IsRootGet(lastResp)
    /\ lastResp.status = 200
    /\ exampleRoutes # <<>>

\* C2: a start as the main module that reaches line 15 while the port is
\* free does not fail at startup, and its listener is bound to 0.0.0.0,
\* port 8000, with automatic reload enabled.
C2_ListensWithReload ==
    \A p \in Procs :
        (runMode[p] = "main" /\ portAtRun[p] = "free")
            => /\ failure[p] = "none"
               /\ phase[p] = "listening"
                     => listener[p] = [host |-> Host, port |-> Port, reload |-> TRUE]

\* C3, as stated: a request is dispatched to a route of the example router
\* only if its path is /api/v1/example or begins with /api/v1/example/,
\* whatever routes the router defines.
C3_OnlyUnderPrefix ==
    lastResp.owner = "example" => UnderPrefix(lastResp.path)

\* C3, amended: when every route of the example router has a path that is
\* empty or begins with "/", a request is dispatched to a route of the
\* router only if its path is /api/v1/example or begins with
\* /api/v1/example/.
C3_OnlyUnderPrefixConventional ==
    Conventional(exampleRoutes)
        => (lastResp.owner = "example" => UnderPrefix(lastResp.path))

C3_Witness ==
    /\ Conventional(exampleRoutes)
    /\ lastResp.owner = "example"
    /\ lastResp.path = ExamplePrefix \o <<"/", "7">>

\* C4: a start made after another start of the program, which found the
\* port free and has not been stopped, fails with a bind error and does not
\* listen.
C4_SecondStartBindError ==
    \A p \in Procs :
        priorStarts[p] # {} => failure[p] = "bind_error" /\ phase[p] # "listening"

\* The steps of the lifecycle named by the specification.
NamedStep(p) ==
    \/ phase[p] = "not_running" /\ phase'[p] = "listening"
    \/ phase[p] = "listening" /\ phase'[p] = "terminated" /\ signalled'[p]

\* A start that fails ends the process without listening.
FailedStartStep(p) ==
    phase[p] = "not_running" /\ phase'[p] = "terminated" /\ failure'[p] # "none"

\* C5, as stated: the lifecycle of a process has only the steps
\* not-running -> listening and listening -> terminated, the latter on an
\* external signal.
C5_OnlyNamedSteps ==
    [][\A p \in Procs : phase'[p] # phase[p] => NamedStep(p)]_vars

\* C5, amended: the lifecycle of a process has only the steps
\* not-running -> listening, listening -> terminated on an external signal,
\* and not-running -> terminated when the start fails; no state is entered
\* again once left.
C5_LifecycleSteps ==
    [][\A p \in Procs :
          phase'[p] # phase[p] => NamedStep(p) \/ FailedStartStep(p)]_vars

C5_Witness ==
    \E p, q \in Procs :
        /\ phase[p] = "terminated" /\ signalled[p]
        /\ phase[q] = "terminated" /\ failure[q] = "bind_error"

\* C6: a startup failure leaves the module as the server raised it, ends
\* the process, and the process is not listening and holds no port.
C6_FailurePropagates ==
    \A p \in Procs :
        failure[p] # "none"
            => /\ exitCause[p] = failure[p]
               /\ phase[p] = "terminated"
               /\ listener[p] = NoListener
               /\ portOwner # p

C6_Witness ==
    \E p \in Procs : failure[p] = "bind_error" /\ pc[p] = "exit"

\* C7: handling requests leaves the routes of the application as lines 5-12
\* built them, and every response to GET / equals the first response to
\* GET /.
C7_NoSideEffects ==
    /\ \A p \in Procs : Loaded(p) => routes[p] = BuiltRoutes(exampleRoutes)
    /\ IsRootGet(lastResp)
          => [status |-> lastResp.status, body |-> lastResp.body] = firstRoot

C7_Witness ==
    /\ IsRootGet(lastResp)
    /\ firstRoot # NoFirst
    /\ \A p \in Procs : Serving(p)

\* C8: no route of the example router matches the path /, and every
\* response to GET / comes from read_root, registered by the application.
C8_RootNotShadowed ==
    /\ \A p \in Procs : \A i \in 1..Len(routes[p]) :
          routes[p][i].owner = "example" => ~PathMatches(routes[p][i], RootPath)
    /\ IsRootGet(lastResp)
          => lastResp.endpoint = "read_root" /\ lastResp.owner = "app"

C8_Witness ==
    /\ IsRootGet(lastResp)
    /\ lastResp.endpoint = "read_root"
    /\ \E i \in 1..Len(exampleRoutes) :
          exampleRoutes[i].path = <<"/">> /\ "GET" \in exampleRoutes[i].methods

\* C9: a process that imports the module never starts a listener and never
\* binds port 8000; once the import is done its application has the routes
\* of the example router and the route of read_root.
C9_ImportStartsNoListener ==
    \A p \in Procs :
        runMode[p] = "imported"
            => /\ phase[p] = "not_running"
               /\ listener[p] = NoListener
               /\ portAtRun[p] = "not_run"
               /\ portOwner # p
               /\ pc[p] = "loaded"
                     => /\ Len(routes[p]) = Len(FastAPI) + Len(exampleRoutes) + 1
                        /\ \E i \in 1..Len(routes[p]) :
                              routes[p][i].endpoint = "read_root"
                        /\ \A j \in 1..Len(exampleRoutes) :
                              \E i \in 1..Len(routes[p]) :
                                  routes[p][i].endpoint = exampleRoutes[j].endpoint

C9_Witness ==
    \E p \in Procs :
        /\ runMode[p] = "imported"
        /\ pc[p] = "loaded"
        /\ exampleRoutes # <<>>
        /\ lastResp # NoResp
        /\ \E q \in Procs : phase[q] = "listening"

\* C10: a request for the path / with a method other than GET is not
\* handled by read_root and is not answered 200 {"Hello": "World"}.
C10_RootOnlyGet ==
    (lastResp.path = RootPath /\ lastResp.method \in Methods \ {"GET"})
        => /\ lastResp.endpoint # "read_root"
           /\ ~(lastResp.status = 200 /\ lastResp.body = Hello)

C10_Witness ==
    /\ lastResp.path = RootPath
    /\ lastResp.method = "HEAD"
    /\ lastResp.status = 405

====
